---- MODULE Spec2Model ----
(***************************************************************************)
(* The photosynthesis simulation of Photosynthesis/script.js: the `state`  *)
(* object, the per-frame pipeline updateSimulation (calculateEnvironment,  *)
(* calculateRate, biomass integration) and the UI handlers that write      *)
(* `state` (slider input listeners, pause button, the 100 ms UI sync).     *)
(*                                                                         *)
(* The source computes in binary64.  The model computes in fixed point:    *)
(*   time                      in Hour-ths of an hour (micro-hours),      *)
(*   light, co2, temp, scores  in Scale-ths (hundredths),                  *)
(*   biomass                   in BiomassScale-ths,                        *)
(*   angles                    in PI-ths of a half turn,                   *)
(*   sin, exp                  in Unit-ths.                                *)
(***************************************************************************)
EXTENDS Integers, FiniteSets, Sequences, TLC

VARIABLES state, sliders

vars == <<state, sliders>>

\* ---------------------------------------------------------------- units
Hour == 1000000
Scale == 100
Unit == 10000
PI == 10000
TWO_PI == 2 * PI

\* state.biomass += rate * 0.0005 : one hundredth of rate is one biomass unit
BiomassScale == Scale * 2000

\* ------------------------------------------------------------ constants
OPTIMAL_TEMP == 25
MAX_BIOMASS == 200

\* state.time += 0.02
TimeStep == Hour \div 50

\* ------------------------------------------------------------- numerics
Abs(x) == IF x < 0 THEN -x ELSE x

Min3(a, b, c) ==
    IF a <= b /\ a <= c THEN a ELSE IF b <= c THEN b ELSE c

\* p5 map(value, start1, stop1, start2, stop2), for ranges where
\* (stop1 - start1) is a multiple of (stop2 - start2)
Map(v, a, b, c, d) == c + (v - a) \div ((b - a) \div (d - c))

\* sin on [0, PI] (Bhaskara's rational approximation: exact at 0, PI/2 and
\* PI, within 0.002 elsewhere), result in Unit-ths
SinHalf(r) ==
    LET p == (r * (PI - r)) \div 1000
    IN  (4 * p * Unit) \div (125000 - p)

\* sin of any angle
Sin(a) ==
    LET r == a % TWO_PI
    IN  IF r <= PI THEN SinHalf(r) ELSE -SinHalf(r - PI)

\* the element of a one-element set: a value built as a set is computed once
Only(S) == CHOOSE r \in S : TRUE

Sq(a) == Only({(x * x) \div Unit : x \in {a}})

\* Math.exp(-y), y >= 0 in Unit-ths, result in Unit-ths:
\* exp(-y) = exp(-y/16)^16, exp(-z) by its Taylor polynomial of degree 4
ExpNeg(y) ==
    IF y > 10 * Unit THEN 0
    ELSE LET z  == y \div 16
             z2 == (z * z) \div Unit
             z3 == (z2 * z) \div Unit
             z4 == (z3 * z) \div Unit
             e  == Unit - z + (z2 \div 2) - (z3 \div 6) + (z4 \div 24)
         IN  Sq(Sq(Sq(Sq(e))))

\* parseInt of a slider's value: the integer part, fraction dropped
ParseInt(v) == IF v >= 0 THEN (v \div Scale) * Scale
               ELSE -(((-v) \div Scale) * Scale)

\* the integer nearest to v
RoundInt(v) == ((v + Scale \div 2) \div Scale) * Scale

\* What an <input type="range"> holds after `slider.value = x`: x itself
\* when the markup's step admits it, the nearest step (1) otherwise.  The
\* markup is not part of script.js, so both outcomes are kept.
RangeValue(x) == {x, RoundInt(x)}

\* binary64 accumulation of 0.02: 0 + 0.02 * 1200 is 23.99999999999958 and
\* 12 + 0.02 * 600 is 23.99999999999974, i.e. the running sum lies just
\* below the decimal grid at every threshold the code compares it with
\* (6, 18, 24).  The model carries the sum one micro-hour below the grid
\* from the first addition on.
TimeAdd(t) == IF t % TimeStep = 0 THEN t + TimeStep - 1 ELSE t + TimeStep


\* ---------------------------------------------------------------- state
\* slider positions the user drags to (whole numbers, in Scale-ths)
LightValues == {0, 10 * Scale, 100 * Scale}
Co2Values == {0, 40 * Scale, 100 * Scale}
TempValues == {10 * Scale, 25 * Scale}

\* const state = { ... }; the sliders start where the state starts
Init ==
    /\ state = [time |-> 12 * Hour, day |-> 1, autoPlay |-> TRUE,
                light |-> 100 * Scale, co2 |-> 40 * Scale, temp |-> 25 * Scale,
                growthRate |-> 0, biomass |-> 15 * BiomassScale,
                limitingFactor |-> "None"]
    /\ sliders = [light |-> 100 * Scale, co2 |-> 40 * Scale, temp |-> 25 * Scale]

\* ---------------------------------------------------------------- logic
\* mutant of AdvanceClock: the day is counted but the clock is not reset
AdvanceClockNoReset(s) ==
    LET t == TimeAdd(s.time)
    IN  IF t >= 24 * Hour
        THEN [s EXCEPT !.time = t, !.day = s.day + 1]
        ELSE [s EXCEPT !.time = t]

\* Increment Time: state.time += 0.02; if (state.time >= 24) { time = 0; day++ }
AdvanceClock(s) ==
    LET t == TimeAdd(s.time)
    IN  IF t >= 24 * Hour
        THEN [s EXCEPT !.time = 0, !.day = s.day + 1]
        ELSE [s EXCEPT !.time = t]

\* mutant of DeriveLight: the daylight window runs to 20:00
DeriveLightLongDay(time) ==
    LET l == IF time >= 6 * Hour /\ time <= 20 * Hour
             THEN (Sin(Map(time, 6 * Hour, 20 * Hour, 0, PI)) * 100 * Scale) \div Unit
             ELSE 0
    IN  IF l < 0 THEN 0 ELSE l

\* Calculate Light (Daytime 6:00 - 18:00), with the clamp at 0
DeriveLight(time) ==
    LET l == IF time >= 6 * Hour /\ time <= 18 * Hour
             THEN (Sin(Map(time, 6 * Hour, 18 * Hour, 0, PI)) * 100 * Scale) \div Unit
             ELSE 0
    IN  IF l < 0 THEN 0 ELSE l

\* Calculate Temp: 20 + sin(map(time - 8, 0, 24, 0, TWO_PI)) * 10
DeriveTemp(time) ==
    LET dailyVar == (Sin(Map(time - 8 * Hour, 0, 24 * Hour, 0, TWO_PI)) * 10 * Scale)
                        \div Unit
    IN  20 * Scale + dailyVar

\* mutant of calculateEnvironment: the autoPlay test is dropped
calculateEnvironmentUngated(s) ==
    LET c == AdvanceClock(s)
    IN  [c EXCEPT !.light = DeriveLight(c.time), !.temp = DeriveTemp(c.time)]

calculateEnvironment(s) ==
    IF s.autoPlay
    THEN LET c == AdvanceClock(s)
         IN  [c EXCEPT !.light = DeriveLight(c.time), !.temp = DeriveTemp(c.time)]
    ELSE s

\* 100 * (v / (v + 20))
SaturationEffect(v) == (100 * Scale * v) \div (v + 20 * Scale)

LightEffect(s) == SaturationEffect(s.light)

Co2Effect(s) == SaturationEffect(s.co2)

\* 100 * exp(-(tempDiff^2 / 200)), snapped to 0 below 1
TempEffect(s) ==
    LET tempDiff == Abs(s.temp - OPTIMAL_TEMP * Scale)
        e == (ExpNeg((tempDiff * tempDiff) \div 200) * 100 * Scale) \div Unit
    IN  IF e < 1 * Scale THEN 0 ELSE e

\* mutant of Rate: the night rule is dropped
RateWithoutNight(s) == Min3(LightEffect(s), Co2Effect(s), TempEffect(s))

\* let rate = Math.min(...); if (state.light < 1) rate = 0
Rate(s) ==
    IF s.light < 1 * Scale THEN 0
    ELSE Min3(LightEffect(s), Co2Effect(s), TempEffect(s))

\* Determine Limiting Factor: the first effect that equals the final rate
LimitingFactor(s) ==
    IF Rate(s) = LightEffect(s) THEN "light"
    ELSE IF Rate(s) = Co2Effect(s) THEN "co2"
    ELSE "temp"

calculateRate(s) ==
    [s EXCEPT !.growthRate = Rate(s), !.limitingFactor = LimitingFactor(s)]

\* mutant of Grow: the comparison with the cap is inverted
GrowAboveCap(s) ==
    IF s.growthRate > 0 /\ s.biomass > MAX_BIOMASS * BiomassScale
    THEN [s EXCEPT !.biomass = s.biomass + (s.growthRate * BiomassScale) \div (2000 * Scale)]
    ELSE s

\* mutant of Grow: a plant that is not growing loses mass
GrowOrDecay(s) ==
    IF s.growthRate > 0 /\ s.biomass < MAX_BIOMASS * BiomassScale
    THEN [s EXCEPT !.biomass = s.biomass + (s.growthRate * BiomassScale) \div (2000 * Scale)]
    ELSE [s EXCEPT !.biomass = s.biomass - 1]

\* if (rate > 0 && state.biomass < MAX_BIOMASS) state.biomass += rate * 0.0005
Grow(s) ==
    IF s.growthRate > 0 /\ s.biomass < MAX_BIOMASS * BiomassScale
    THEN [s EXCEPT !.biomass = s.biomass + (s.growthRate * BiomassScale) \div (2000 * Scale)]
    ELSE s

\* mutant of updateSimulation: the rate is computed before the environment
updateSimulationRateFirst(s) ==
    Only({Grow(e) : e \in {calculateEnvironment(r) : r \in {calculateRate(s)}}})

\* calculateEnvironment(); const rate = calculateRate(); then the biomass step
updateSimulation(s) ==
    Only({Grow(r) : r \in {calculateRate(e) : e \in {calculateEnvironment(s)}}})

\* mutant of handleManualInput: the natural cycle is not paused
handleManualInputPlaying(s, sl) ==
    [s EXCEPT !.light = ParseInt(sl.light),
              !.co2 = ParseInt(sl.co2),
              !.temp = ParseInt(sl.temp)]

\* handleManualInput: every factor is re-read from its slider
handleManualInput(s, sl) ==
    [s EXCEPT !.autoPlay = FALSE,
              !.light = ParseInt(sl.light),
              !.co2 = ParseInt(sl.co2),
              !.temp = ParseInt(sl.temp)]

\* mutant of co2Listener: the CO2 slider is wired like the other two
co2ListenerPausing(s, v) == [s EXCEPT !.autoPlay = FALSE, !.co2 = ParseInt(v)]

\* sliders.co2 input listener: state.co2 = parseInt(e.target.value)
co2Listener(s, v) == [s EXCEPT !.co2 = ParseInt(v)]

\* -------------------------------------------------------------- actions
\* draw(): one frame
Tick ==
    /\ state' = updateSimulation(state)
    /\ UNCHANGED sliders

\* the user drags the light slider to v; its input listener runs
LightInput ==
    \E v \in LightValues :
        /\ sliders' = [sliders EXCEPT !.light = v]
        /\ state' = handleManualInput(state, sliders')

TempInput ==
    \E v \in TempValues :
        /\ sliders' = [sliders EXCEPT !.temp = v]
        /\ state' = handleManualInput(state, sliders')

\* the user drags the CO2 slider to v; its own listener runs
Co2Input ==
    \E v \in Co2Values :
        /\ sliders' = [sliders EXCEPT !.co2 = v]
        /\ state' = co2Listener(state, v)

\* Pause Button
PauseClick ==
    /\ state' = [state EXCEPT !.autoPlay = ~state.autoPlay]
    /\ UNCHANGED sliders

\* setInterval(..., 100): Sync Sliders to State (if AutoPlay); the rest of
\* the callback writes display elements only
UISync ==
    /\ state.autoPlay
    /\ \E l \in RangeValue(state.light), t \in RangeValue(state.temp) :
           sliders' = [sliders EXCEPT !.light = l, !.temp = t]
    /\ UNCHANGED state


\* ------------------------------------------------------- specifications
\* The interactive session: every handler may run between any two frames.
\* Frames are explored while the clock is within MaxSessionTicks steps of
\* its start and the plant within MaxSessionTicks full-rate increments of
\* its starting size.
MaxSessionTicks == 2

SessionTick ==
    /\ state.day = 1
    /\ state.time < 12 * Hour + MaxSessionTicks * TimeStep
    /\ state.biomass < 15 * BiomassScale + MaxSessionTicks * 100 * Scale
    /\ Tick

Next ==
    \/ SessionTick
    \/ LightInput
    \/ TempInput
    \/ Co2Input
    \/ PauseClick
    \/ UISync

Spec == Init /\ [][Next]_vars

\* The long run: the user sets the controls before the first frame and then
\* lets the simulation run, through MaxDay days of the clock or, paused, up
\* to the biomass cap, pausing and resuming only while it is dark.
MaxDay == 2

\* no frame has run yet: calculateRate never leaves limitingFactor 'None'
Setup == state.limitingFactor = "None"

RunTick ==
    /\ state.autoPlay => state.day <= MaxDay
    /\ Tick

SetupLight == Setup /\ LightInput

SetupTemp == Setup /\ TempInput

SetupCo2 == Setup /\ Co2Input

SetupPause == Setup /\ PauseClick

\* the pause button is also pressed, any number of times, in the dark
NightPause == ~Setup /\ state.light = 0 /\ PauseClick

NextRun ==
    \/ RunTick
    \/ SetupLight
    \/ SetupTemp
    \/ SetupCo2
    \/ SetupPause
    \/ NightPause

SpecRun == Init /\ [][NextRun]_vars

\* The growing season: CO2 is set and play/pause pressed before the first
\* frame, the pause button is pressed in the dark, and draw() keeps being
\* called (p5 calls it for every frame) through MaxGrowDay days of the clock.
MaxGrowDay == 12

GrowTick ==
    /\ state.autoPlay => state.day <= MaxGrowDay
    /\ Tick

NextGrow ==
    \/ GrowTick
    \/ SetupCo2
    \/ SetupPause
    \/ NightPause

SpecGrow == Init /\ [][NextGrow]_vars /\ WF_vars(GrowTick)


\* --------------------------------------------------------------- claims
\* the smallest of the three effect scores of s
MinScore(s) == Min3(LightEffect(s), Co2Effect(s), TempEffect(s))

\* the first factor, in the order light, co2, temp, whose score is smallest
FirstMinimal(s) ==
    IF LightEffect(s) = MinScore(s) THEN "light"
    ELSE IF Co2Effect(s) = MinScore(s) THEN "co2"
    ELSE "temp"

\* C1: in every reachable state biomass is at most MAX_BIOMASS (200); the
\* tick that brings biomass to the cap never leaves it above 200.
BiomassWithinCap == state.biomass <= MAX_BIOMASS * BiomassScale

\* C2: biomass starts at 15 and no step (tick, slider input, pause toggle,
\* UI sync) lowers it; a step that changes it is a tick with growthRate > 0
\* taken while biomass was below the cap.
BiomassNonDecreasing ==
    /\ state.biomass = 15 * BiomassScale
    /\ [][/\ state'.biomass >= state.biomass
          /\ state'.biomass # state.biomass =>
                /\ Tick
                /\ state'.growthRate > 0
                /\ state.biomass < MAX_BIOMASS * BiomassScale]_vars

\* C2 witness: the plant has grown and the controls were touched afterwards
GrownThenPaused ==
    /\ state.biomass > 15 * BiomassScale
    /\ ~state.autoPlay
    /\ state.light = 10 * Scale

\* C3: after every tick growthRate is the minimum of the three effect scores
\* of the tick's light, co2 and temp when light >= 1, and 0 when light < 1.
GrowthRateIsMinimum ==
    [][Tick => state'.growthRate =
                 (IF state'.light < 1 * Scale THEN 0 ELSE MinScore(state'))]_vars

\* C3 witness: a frame at dusk or dawn, where light is positive but below 1:
\* all three scores are positive and the rate is 0
TwilightRateZero ==
    /\ state.limitingFactor # "None"
    /\ state.autoPlay
    /\ state.light > 0 /\ state.light < 1 * Scale
    /\ MinScore(state) > 0
    /\ state.growthRate = 0

\* C4: after every tick limitingFactor is the first factor, in the order
\* light, co2, temp, whose effect score equals the minimum of the three, also
\* on ticks where the rate is forced to 0 because light < 1.
LimitingFactorIsMinimal ==
    [][Tick => state'.limitingFactor = FirstMinimal(state')]_vars

\* C5: a tick taken while autoPlay is false changes nothing but growthRate,
\* limitingFactor and biomass: time, day, light and temp (and autoPlay, co2)
\* keep their values, so a light of 10 set by hand stays 10.
PausedTickFrame ==
    [][(~state.autoPlay /\ Tick) =>
          /\ state'.time = state.time
          /\ state'.day = state.day
          /\ state'.light = state.light
          /\ state'.temp = state.temp
          /\ state'.co2 = state.co2
          /\ ~state'.autoPlay]_vars

\* C5 witness: light was set to 10 by hand and a paused frame has computed
\* the rate from it
PausedTickAtLight10 ==
    /\ ~state.autoPlay
    /\ state.light = 10 * Scale
    /\ state.limitingFactor = "light"
    /\ state.growthRate = SaturationEffect(10 * Scale)
    /\ state.biomass > 15 * BiomassScale

\* C6: a manual override of light (of temp) to v sets autoPlay to false and
\* sets exactly that factor to v; the other two factors, time, day and
\* biomass keep the values they had immediately before the override.
OverrideWritesOneFactor ==
    [][/\ LightInput =>
             state' = [state EXCEPT !.autoPlay = FALSE, !.light = sliders'.light]
       /\ TempInput =>
             state' = [state EXCEPT !.autoPlay = FALSE, !.temp = sliders'.temp]]_vars

TimeInRange == state.time >= 0 /\ state.time < 24 * Hour

\* C9 witness: the clock has wrapped into the second day
WrappedToDayTwo == state.day = 2 /\ state.time = 0

\* C10: day starts at 1 and never decreases; a tick with autoPlay true adds
\* 1 to day exactly when the advanced time reaches or passes 24, and time
\* then becomes the advanced time minus 24 (otherwise the advanced time).
DayWrapKeepsRemainder ==
    /\ state.day = 1
    /\ [][/\ state'.day >= state.day
          /\ (state.autoPlay /\ Tick) =>
                LET t == TimeAdd(state.time)
                IN  IF t >= 24 * Hour
                    THEN state'.day = state.day + 1 /\ state'.time = t - 24 * Hour
                    ELSE state'.day = state.day /\ state'.time = t]_vars


\* C11: photosynthesis stops at night: a tick taken with autoPlay true that
\* leaves time outside [6, 18] leaves light 0 and growthRate 0, whatever co2
\* and temp are, and does not change biomass.
NightStopsPhotosynthesis ==
    [][(/\ state.autoPlay
        /\ Tick
        /\ (state'.time < 6 * Hour \/ state'.time > 18 * Hour)) =>
          /\ state'.light = 0
          /\ state'.growthRate = 0
          /\ state'.biomass = state.biomass]_vars

\* C11 witness: a frame of the first evening, with CO2 at 100 and the
\* temperature effect still above 90: light and rate are 0
NightFrameWithAmpleCo2 ==
    /\ state.autoPlay
    /\ state.limitingFactor # "None"
    /\ state.time > 18 * Hour
    /\ state.co2 = 100 * Scale
    /\ TempEffect(state) > 90 * Scale
    /\ state.light = 0
    /\ state.growthRate = 0


\* C12: within one tick the stages run in the order clock, environment,
\* rate, biomass, each on the previous stage's output of that tick: after a
\* tick with autoPlay true light and temp are the values derived from the
\* time that tick produced, growthRate and limitingFactor are computed from
\* those values and the current co2, and the biomass increment is that
\* growthRate's.
TickStagesInOrder ==
    [][(state.autoPlay /\ Tick) =>
          /\ state'.light = DeriveLight(state'.time)
          /\ state'.temp = DeriveTemp(state'.time)
          /\ state'.co2 = state.co2
          /\ state'.growthRate =
                (IF state'.light < 1 * Scale THEN 0 ELSE MinScore(state'))
          /\ state'.limitingFactor =
                (IF state'.growthRate = LightEffect(state') THEN "light"
                 ELSE IF state'.growthRate = Co2Effect(state') THEN "co2"
                 ELSE "temp")
          /\ state'.biomass = state.biomass +
                (IF state'.growthRate > 0 /\ state.biomass < MAX_BIOMASS * BiomassScale
                 THEN state'.growthRate ELSE 0)]_vars

\* C12 witness: light was set to 10 by hand, play was pressed, and the one
\* clock step taken so far came after that: light is the derived value
\* again and the rate is the one CO2 allows, not the one light 10 allowed
FirstFrameAfterResume ==
    /\ state.autoPlay
    /\ sliders.light = 10 * Scale
    /\ state.time = TimeAdd(12 * Hour)
    /\ state.light = DeriveLight(state.time)
    /\ state.light > 90 * Scale
    /\ state.growthRate = Co2Effect(state)
    /\ state.limitingFactor = "co2"


\* C13: if ticks keep occurring, autoPlay stays true and co2 stays positive,
\* then biomass eventually reaches the cap (biomass >= MAX_BIOMASS), and from
\* a state at the cap no tick changes biomass again.
BiomassReachesCap ==
    /\ [](state.autoPlay /\ state.co2 > 0) =>
            <>(state.biomass >= MAX_BIOMASS * BiomassScale)
    /\ [][(state.biomass >= MAX_BIOMASS * BiomassScale /\ Tick) =>
              state'.biomass = state.biomass]_vars

\* C13 witness: the untouched run (autoPlay true, co2 40) is at the cap
\* after days of growth, and frames go on
CapReachedWhilePlaying ==
    /\ state.autoPlay
    /\ state.co2 = 40 * Scale
    /\ state.day > 2
    /\ state.biomass >= MAX_BIOMASS * BiomassScale
    /\ state.growthRate > 0

====
